---- MODULE Spec2Model ----
(***************************************************************************)
(* CHIP-8 interpreter core (chip8_core::Emu) and its driver cadence.       *)
(* The machine is the struct Emu; every public method is one action.       *)
(* A Rust panic aborts the process: it is recorded in `panic` and no       *)
(* further operation runs.                                                 *)
(***************************************************************************)
EXTENDS Integers, Sequences, FiniteSets, TLC

\* ----------------------------------------------------------------------
\* Program constants (chip8_core/src/lib.rs)
\* ----------------------------------------------------------------------
SCREEN_WIDTH == 64
SCREEN_HEIGHT == 32
RAM_SIZE == 4096
NUM_REGS == 16
STACK_SIZE == 16
NUM_KEYS == 16
FONTSET_SIZE == 80
FONT_SIZE == 5
FONTSET_ADDR == 0
START_ADDR == \h200

FONTSET ==
  << \hF0, \h90, \h90, \h90, \hF0,
     \h20, \h60, \h20, \h20, \h70,
     \hF0, \h10, \hF0, \h80, \hF0,
     \hF0, \h10, \hF0, \h10, \hF0,
     \h90, \h90, \hF0, \h10, \h10,
     \hF0, \h80, \hF0, \h10, \hF0,
     \hF0, \h80, \hF0, \h90, \hF0,
     \hF0, \h10, \h20, \h40, \h40,
     \hF0, \h90, \hF0, \h90, \hF0,
     \hF0, \h90, \hF0, \h10, \hF0,
     \hF0, \h90, \hF0, \h90, \h90,
     \hE0, \h90, \hE0, \h90, \hE0,
     \hF0, \h80, \h80, \h80, \hF0,
     \hE0, \h90, \h90, \h90, \hE0,
     \hF0, \h80, \hF0, \h80, \hF0,
     \hF0, \h80, \hF0, \h80, \h80 >>

\* widths of the integer types of the struct fields
U8 == 256
U16 == 65536

\* ----------------------------------------------------------------------
\* Bit arithmetic on unsigned values
\* ----------------------------------------------------------------------
Pow2(n) == 2 ^ n

Bit(v, i) == (v \div Pow2(i)) % 2

Bits16 == 0..15

\* sum of 2^i over the bit positions i in S
Weight(S) ==
  LET w(i) == IF i \in S THEN Pow2(i) ELSE 0
  IN w(0) + w(1) + w(2) + w(3) + w(4) + w(5) + w(6) + w(7)
     + w(8) + w(9) + w(10) + w(11) + w(12) + w(13) + w(14) + w(15)

BitAnd(a, b) == Weight({i \in Bits16 : Bit(a, i) = 1 /\ Bit(b, i) = 1})

BitOr(a, b) == Weight({i \in Bits16 : Bit(a, i) = 1 \/ Bit(b, i) = 1})

BitXor(a, b) == Weight({i \in Bits16 : Bit(a, i) # Bit(b, i)})

\* ----------------------------------------------------------------------
\* The machine state: one variable per field of struct Emu
\* ----------------------------------------------------------------------
VARIABLES
  pc,       \* u16 program counter
  ram,      \* [u8; RAM_SIZE]
  screen,   \* [bool; SCREEN_WIDTH * SCREEN_HEIGHT]
  v_reg,    \* [u8; NUM_REGS]
  i_reg,    \* u16
  sp,       \* u16
  stack,    \* [u16; STACK_SIZE]
  keys,     \* [bool; NUM_KEYS]
  dt,       \* u8
  st,       \* u8
  panic,    \* "none", or the kind of panic that aborted the process
  last,     \* the public method invoked last; for an instruction step also the
            \* address and the instruction word it fetched, for a load its bytes
  before,   \* registers, index and display at entry of the latest instruction step
  frames,   \* call sites of the subroutine calls not yet returned from
  cycles,   \* instruction steps since construction or reset
  loads     \* program loads since construction or reset

emu_vars == <<pc, ram, screen, v_reg, i_reg, sp, stack, keys, dt, st>>
vars == <<pc, ram, screen, v_reg, i_reg, sp, stack, keys, dt, st,
          panic, last, before, frames, cycles, loads>>

\* the struct as one value
Self ==
  [ pc |-> pc, ram |-> ram, screen |-> screen, v_reg |-> v_reg,
    i_reg |-> i_reg, sp |-> sp, stack |-> stack, keys |-> keys,
    dt |-> dt, st |-> st, panic |-> panic ]

\* a panic unwinds out of the method: the fields keep what was written so far
Panic(m, kind) == [m EXCEPT !.panic = kind]

\* ----------------------------------------------------------------------
\* The array initialisers `[0; RAM_SIZE]`, `[false; ...]` of new and reset
\* ----------------------------------------------------------------------
ZeroRam == [a \in 0..(RAM_SIZE - 1) |-> 0]
BlankScreen == [p \in 0..(SCREEN_WIDTH * SCREEN_HEIGHT - 1) |-> FALSE]
ZeroRegs == [r \in 0..(NUM_REGS - 1) |-> 0]
ZeroStack == [s \in 0..(STACK_SIZE - 1) |-> 0]
NoKeys == [k \in 0..(NUM_KEYS - 1) |-> FALSE]

\* ----------------------------------------------------------------------
\* Emu::new
\* ----------------------------------------------------------------------
new ==
  [ pc |-> START_ADDR,
    ram |-> [a \in 0..(RAM_SIZE - 1) |->
               IF a < FONTSET_SIZE THEN FONTSET[a + 1] ELSE ZeroRam[a]],
    screen |-> BlankScreen,
    v_reg |-> ZeroRegs,
    i_reg |-> 0,
    sp |-> 0,
    stack |-> ZeroStack,
    keys |-> NoKeys,
    dt |-> 0,
    st |-> 0,
    panic |-> "none" ]

\* ----------------------------------------------------------------------
\* Emu::load: the range start..end is checked before copy_from_slice writes
\* ----------------------------------------------------------------------
\* variant: an image that does not fit is cut off at the end of memory
load_truncate(m, data) ==
  [m EXCEPT !.ram = [a \in 0..(RAM_SIZE - 1) |->
                       IF a >= START_ADDR /\ a < START_ADDR + Len(data)
                         THEN data[a - START_ADDR + 1]
                         ELSE m.ram[a]]]

load(m, data) ==
  LET start == START_ADDR
      end == START_ADDR + Len(data)
  IN IF end > RAM_SIZE
       THEN Panic(m, "slice_out_of_range")
       ELSE [m EXCEPT !.ram = [a \in 0..(RAM_SIZE - 1) |->
                                  IF a >= start /\ a < end
                                    THEN data[a - start + 1]
                                    ELSE m.ram[a]]]

\* ----------------------------------------------------------------------
\* Emu::keypress
\* ----------------------------------------------------------------------
keypress(m, key, pressed) ==
  IF key >= NUM_KEYS
    THEN Panic(m, "index_out_of_bounds")
    ELSE [m EXCEPT !.keys[key] = pressed]

\* ----------------------------------------------------------------------
\* Emu::push / Emu::pop
\* ----------------------------------------------------------------------
\* variant: no capacity check, the slot index wraps
push_wrap(m, val) ==
  [m EXCEPT !.stack[m.sp % STACK_SIZE] = val, !.sp = m.sp + 1]

push(m, val) ==
  IF m.sp >= STACK_SIZE
    THEN Panic(m, "index_out_of_bounds")
    ELSE [m EXCEPT !.stack[m.sp] = val, !.sp = m.sp + 1]

\* variant: the slot is read before the depth is decremented
pop_stale(m, overflow_checks) ==
  IF m.sp = 0 \/ m.sp >= STACK_SIZE
    THEN [m |-> Panic(m, "index_out_of_bounds"), val |-> 0]
    ELSE [m |-> [m EXCEPT !.sp = m.sp - 1], val |-> m.stack[m.sp]]

\* `self.sp -= 1` on sp = 0 panics when the build checks overflow and wraps
\* otherwise, and then the wrapped index is out of bounds.
pop(m, overflow_checks) ==
  IF m.sp = 0
    THEN IF overflow_checks
           THEN [m |-> Panic(m, "arith_overflow"), val |-> 0]
           ELSE [m |-> Panic([m EXCEPT !.sp = U16 - 1], "index_out_of_bounds"),
                 val |-> 0]
    ELSE IF m.sp - 1 >= STACK_SIZE
           THEN [m |-> Panic([m EXCEPT !.sp = m.sp - 1], "index_out_of_bounds"),
                 val |-> 0]
           ELSE [m |-> [m EXCEPT !.sp = m.sp - 1], val |-> m.stack[m.sp - 1]]

\* ----------------------------------------------------------------------
\* Emu::reset
\* ----------------------------------------------------------------------
reset(m) ==
  [m EXCEPT
     !.pc = START_ADDR,
     !.ram = ZeroRam,
     !.screen = BlankScreen,
     !.v_reg = ZeroRegs,
     !.i_reg = 0,
     !.sp = 0,
     !.stack = ZeroStack,
     !.keys = NoKeys,
     !.dt = 0,
     !.st = 0]

\* ----------------------------------------------------------------------
\* Emu::tick_timers
\* ----------------------------------------------------------------------
\* variant: both timers are decremented without the test for zero
\* the signal a timer step on machine m gives the driver: the branch
\* `if self.st == 1` holds a comment and no statement, and tick_timers
\* returns nothing
sound_cue(m) == FALSE

tick_timers_wrap(m) ==
  [m EXCEPT !.dt = (m.dt - 1) % U8, !.st = (m.st - 1) % U8]

tick_timers(m) ==
  LET m1 == IF m.dt > 0 THEN [m EXCEPT !.dt = m.dt - 1] ELSE m
  IN IF m1.st > 0 THEN [m1 EXCEPT !.st = m1.st - 1] ELSE m1

\* ----------------------------------------------------------------------
\* u16 arithmetic on the program counter: `+=` and `-=` panic on overflow
\* when the build checks overflow and wrap otherwise
\* ----------------------------------------------------------------------
pc_add(m, n, overflow_checks) ==
  IF m.pc + n >= U16
    THEN IF overflow_checks
           THEN Panic(m, "arith_overflow")
           ELSE [m EXCEPT !.pc = (m.pc + n) % U16]
    ELSE [m EXCEPT !.pc = m.pc + n]

\* variant: the counter is not stepped back
pc_sub_none(m, n, overflow_checks) == m

pc_sub(m, n, overflow_checks) ==
  IF m.pc - n < 0
    THEN IF overflow_checks
           THEN Panic(m, "arith_overflow")
           ELSE [m EXCEPT !.pc = (m.pc - n) % U16]
    ELSE [m EXCEPT !.pc = m.pc - n]

\* ----------------------------------------------------------------------
\* Emu::fetch
\* ----------------------------------------------------------------------
\* variant: the two byte addresses wrap at the end of memory
fetch_wrap(m, overflow_checks) ==
  [m |-> pc_add(m, 2, overflow_checks),
   op |-> m.ram[m.pc % RAM_SIZE] * 256 + m.ram[(m.pc + 1) % RAM_SIZE]]

fetch(m, overflow_checks) ==
  IF m.pc >= RAM_SIZE
    THEN [m |-> Panic(m, "index_out_of_bounds"), op |-> 0]
    ELSE IF m.pc + 1 >= RAM_SIZE
           THEN [m |-> Panic(m, "index_out_of_bounds"), op |-> 0]
           ELSE [m |-> pc_add(m, 2, overflow_checks),
                 op |-> m.ram[m.pc] * 256 + m.ram[m.pc + 1]]

\* ----------------------------------------------------------------------
\* Emu::execute, DXYN: the loops over the sprite
\* ----------------------------------------------------------------------
\* variant: the column wraps at the display height
pixel_index_swapped(x_coord, y_coord, y_line, x_line) ==
  LET x == (x_coord + x_line) % SCREEN_HEIGHT
      y == (y_coord + y_line) % SCREEN_HEIGHT
  IN x + SCREEN_WIDTH * y

\* the index into the 1D screen array of sprite bit (y_line, x_line)
pixel_index(x_coord, y_coord, y_line, x_line) ==
  LET x == (x_coord + x_line) % SCREEN_WIDTH
      y == (y_coord + y_line) % SCREEN_HEIGHT
  IN x + SCREEN_WIDTH * y

\* variant: the pixel is set instead of toggled
flip_set(pixel) == TRUE

\* `self.screen[idx] ^= true`
flip(pixel) == (pixel # TRUE)

\* variant: the flag records a pixel that was unset before its toggle
collides_unset(pixel) == ~pixel

\* `flipped |= self.screen[idx]`: the pixel's value before its toggle
collides(pixel) == pixel

\* The display during a draw: d.hit holds the pixels toggled an odd number
\* of times so far in this draw, on top of the display m.screen at its entry.
current_screen(m, d) ==
  [p \in DOMAIN m.screen |-> IF p \in d.hit THEN flip(m.screen[p]) ELSE m.screen[p]]

\* The inner loop `for x_line in 0..8` over one sprite row.  Its iterations
\* address eight different columns, so each reads and toggles a pixel that no
\* other iteration of the row touches.
draw_row(m, d, pixels, x_coord, y_coord, y_line) ==
  LET lit == {x_line \in 0..7 : BitAnd(pixels, 128 \div Pow2(x_line)) # 0}
      idxs == {pixel_index(x_coord, y_coord, y_line, x_line) : x_line \in lit}
  IN [ flipped |-> d.flipped \/ (\E idx \in idxs : collides(m.screen[idx] # (idx \in d.hit))),
       hit |-> (d.hit \ idxs) \cup (idxs \ d.hit) ]

\* The outer loop `for y_line in 0..num_rows`, then the write of VF
RECURSIVE draw_sprite(_, _, _, _, _, _, _)
draw_sprite(m, d, x_coord, y_coord, num_rows, y_line, overflow_checks) ==
  IF y_line >= num_rows
    THEN [m EXCEPT !.screen = current_screen(m, d),
                   !.v_reg[15] = IF d.flipped THEN 1 ELSE 0]
    ELSE LET sum == m.i_reg + y_line
             addr == sum % U16
         IN IF sum >= U16 /\ overflow_checks
              THEN Panic([m EXCEPT !.screen = current_screen(m, d)], "arith_overflow")
              ELSE IF addr >= RAM_SIZE
                     THEN Panic([m EXCEPT !.screen = current_screen(m, d)],
                                "index_out_of_bounds")
                     ELSE draw_sprite(m,
                            draw_row(m, d, m.ram[addr], x_coord, y_coord, y_line),
                            x_coord, y_coord, num_rows, y_line + 1,
                            overflow_checks)

\* ----------------------------------------------------------------------
\* Emu::execute, FX0A: the scan of the key table
\* ----------------------------------------------------------------------
\* variant: the scan stops at the first pressed key
RECURSIVE scan_keys_first(_, _, _)
scan_keys_first(m, key_no, i) ==
  IF i >= NUM_KEYS
    THEN key_no
    ELSE IF m.keys[i] THEN i ELSE scan_keys_first(m, key_no, i + 1)

RECURSIVE scan_keys(_, _, _)
scan_keys(m, key_no, i) ==
  IF i >= NUM_KEYS
    THEN key_no
    ELSE scan_keys(m, IF m.keys[i] THEN i ELSE key_no, i + 1)

\* ----------------------------------------------------------------------
\* Emu::execute, FX55 / FX65: the copy loops `for i in 0..x`
\* ----------------------------------------------------------------------
\* variant: register X is copied too
RECURSIVE store_regs_inclusive(_, _, _)
store_regs_inclusive(m, x, i) ==
  IF i > x
    THEN m
    ELSE IF m.i_reg + i >= RAM_SIZE
           THEN Panic(m, "index_out_of_bounds")
           ELSE store_regs_inclusive([m EXCEPT !.ram[m.i_reg + i] = m.v_reg[i]],
                                     x, i + 1)

RECURSIVE store_regs(_, _, _)
store_regs(m, x, i) ==
  IF i >= x
    THEN m
    ELSE IF m.i_reg + i >= RAM_SIZE
           THEN Panic(m, "index_out_of_bounds")
           ELSE store_regs([m EXCEPT !.ram[m.i_reg + i] = m.v_reg[i]], x, i + 1)

\* variant: the address wraps at the end of memory
RECURSIVE load_regs_wrap(_, _, _)
load_regs_wrap(m, x, i) ==
  IF i >= x
    THEN m
    ELSE load_regs_wrap([m EXCEPT !.v_reg[i] = m.ram[(m.i_reg + i) % RAM_SIZE]],
                        x, i + 1)

RECURSIVE load_regs(_, _, _)
load_regs(m, x, i) ==
  IF i >= x
    THEN m
    ELSE IF m.i_reg + i >= RAM_SIZE
           THEN Panic(m, "index_out_of_bounds")
           ELSE load_regs([m EXCEPT !.v_reg[i] = m.ram[m.i_reg + i]], x, i + 1)

\* variant: the digits of the value register X holds
store_bcd_value(m, x) ==
  [m EXCEPT !.ram[m.i_reg] = m.v_reg[x] \div 100,
            !.ram[m.i_reg + 1] = (m.v_reg[x] % 100) \div 10,
            !.ram[m.i_reg + 2] = m.v_reg[x] % 10]

\* Emu::execute, FX33: three writes in sequence
store_bcd(m, x) ==
  LET hundreds == (x \div 100) % U8
      tens == ((x % 100) \div 10) % U8
      ones == (x % 10) % U8
      start_addr == m.i_reg
  IN IF start_addr >= RAM_SIZE
       THEN Panic(m, "index_out_of_bounds")
       ELSE LET m1 == [m EXCEPT !.ram[start_addr] = hundreds]
            IN IF start_addr + 1 >= RAM_SIZE
                 THEN Panic(m1, "index_out_of_bounds")
                 ELSE LET m2 == [m1 EXCEPT !.ram[start_addr + 1] = tens]
                      IN IF start_addr + 2 >= RAM_SIZE
                           THEN Panic(m2, "index_out_of_bounds")
                           ELSE [m2 EXCEPT !.ram[start_addr + 2] = ones]

\* Emu::execute, 6XNN (LD Vx, byte) and 7XNN (ADD Vx, byte)
ld_vx_byte(m, x, nn) == [m EXCEPT !.v_reg[x] = nn]

\* variant: the carry is written to VF, as the register add 8XY4 does
add_vx_byte_carry(m, x, nn) ==
  [[m EXCEPT !.v_reg[x] = (m.v_reg[x] + nn) % U8]
     EXCEPT !.v_reg[15] = IF m.v_reg[x] + nn >= U8 THEN 1 ELSE 0]

add_vx_byte(m, x, nn) == [m EXCEPT !.v_reg[x] = (m.v_reg[x] + nn) % U8]

\* variant: the flag is 1 also when the operands are equal
sub_vx_vy_geq(m, x, y) ==
  [[m EXCEPT !.v_reg[x] = (m.v_reg[x] - m.v_reg[y]) % U8]
     EXCEPT !.v_reg[15] = IF m.v_reg[x] >= m.v_reg[y] THEN 1 ELSE 0]

\* Emu::execute, 8XY5 (SUB Vx, Vy) and 8XY7 (SUBN Vx, Vy)
sub_vx_vy(m, x, y) ==
  LET not_borrow == IF m.v_reg[x] > m.v_reg[y] THEN 1 ELSE 0
      difference == (m.v_reg[x] - m.v_reg[y]) % U8
  IN [[m EXCEPT !.v_reg[x] = difference] EXCEPT !.v_reg[15] = not_borrow]

subn_vx_vy(m, x, y) ==
  LET not_borrow == IF m.v_reg[y] > m.v_reg[x] THEN 1 ELSE 0
  IN [[m EXCEPT !.v_reg[x] = (m.v_reg[y] - m.v_reg[x]) % U8]
        EXCEPT !.v_reg[15] = not_borrow]

\* variant: the display is left as it is
clear_screen_keep(m) == m

\* Emu::execute, 00E0 (CLS)
clear_screen(m) == [m EXCEPT !.screen = BlankScreen]

\* variant: the word is skipped
unimplemented_skip(m, op) == m

\* Emu::execute, the default arm: `unimplemented!(...)`
unimplemented(m, op) == Panic(m, "unimplemented")

\* skip the next instruction: `self.pc += 2`
skip_if(m, cond, overflow_checks) ==
  IF cond THEN pc_add(m, 2, overflow_checks) ELSE m

\* variant: the key number is the low four bits of register X
skp_vx_masked(m, x, overflow_checks) ==
  skip_if(m, m.keys[m.v_reg[x] % NUM_KEYS], overflow_checks)

\* Emu::execute, EX9E (SKP Vx) and EXA1 (SKNP Vx): `self.keys[key_no]` with
\* key_no the whole value of register X
skp_vx(m, x, overflow_checks) ==
  LET key_no == m.v_reg[x]
  IN IF key_no >= NUM_KEYS
       THEN Panic(m, "index_out_of_bounds")
       ELSE skip_if(m, m.keys[key_no], overflow_checks)

sknp_vx(m, x, overflow_checks) ==
  LET key_no == m.v_reg[x]
  IN IF key_no >= NUM_KEYS
       THEN Panic(m, "index_out_of_bounds")
       ELSE skip_if(m, ~m.keys[key_no], overflow_checks)

\* ----------------------------------------------------------------------
\* Emu::execute: m is the machine after fetch, op the instruction word,
\* rand the byte drawn by CXNN
\* ----------------------------------------------------------------------
execute(m, op, rand, overflow_checks) ==
  LET digit1 == BitAnd(op, \hF000) \div 4096
      digit2 == BitAnd(op, \h0F00) \div 256
      digit3 == BitAnd(op, \h00F0) \div 16
      digit4 == BitAnd(op, \h000F)
      x == digit2
      y == digit3
      nn == BitAnd(op, \h00FF)
      nnn == BitAnd(op, \h0FFF)
      vx == m.v_reg[x]
      vy == m.v_reg[y]
  IN CASE digit1 = 0 /\ digit2 = 0 /\ digit3 = 0 /\ digit4 = 0 -> m
       [] digit1 = 0 /\ digit2 = 0 /\ digit3 = 14 /\ digit4 = 0 -> clear_screen(m)
       [] digit1 = 0 /\ digit2 = 0 /\ digit3 = 14 /\ digit4 = 14 ->
            LET r == pop(m, overflow_checks)
            IN IF r.m.panic # "none" THEN r.m ELSE [r.m EXCEPT !.pc = r.val]
       [] digit1 = 1 -> [m EXCEPT !.pc = nnn]
       [] digit1 = 2 ->
            LET m1 == push(m, m.pc)
            IN IF m1.panic # "none" THEN m1 ELSE [m1 EXCEPT !.pc = nnn]
       [] digit1 = 3 -> skip_if(m, vx = nn, overflow_checks)
       [] digit1 = 4 -> skip_if(m, vx # nn, overflow_checks)
       [] digit1 = 5 ->
            \* both operands are decoded from digit2
            skip_if(m, m.v_reg[digit2] = m.v_reg[digit2], overflow_checks)
       [] digit1 = 6 -> ld_vx_byte(m, x, nn)
       [] digit1 = 7 -> add_vx_byte(m, x, nn)
       [] digit1 = 8 /\ digit4 = 0 -> [m EXCEPT !.v_reg[x] = vy]
       [] digit1 = 8 /\ digit4 = 1 -> [m EXCEPT !.v_reg[x] = BitOr(vx, vy)]
       [] digit1 = 8 /\ digit4 = 2 -> [m EXCEPT !.v_reg[x] = BitAnd(vx, vy)]
       [] digit1 = 8 /\ digit4 = 3 -> [m EXCEPT !.v_reg[x] = BitXor(vx, vy)]
       [] digit1 = 8 /\ digit4 = 4 ->
            LET sum == (vx + vy) % U8
                carry == IF vx + vy >= U8 THEN 1 ELSE 0
            IN [[m EXCEPT !.v_reg[x] = sum] EXCEPT !.v_reg[15] = carry]
       [] digit1 = 8 /\ digit4 = 5 -> sub_vx_vy(m, x, y)
       [] digit1 = 8 /\ digit4 = 6 ->
            LET lsb == BitAnd(vx, 1)
            IN [[m EXCEPT !.v_reg[x] = vx \div 2] EXCEPT !.v_reg[15] = lsb]
       [] digit1 = 8 /\ digit4 = 7 -> subn_vx_vy(m, x, y)
       [] digit1 = 8 /\ digit4 = 14 ->
            LET msb == BitAnd(vx \div 128, 1)
            IN [[m EXCEPT !.v_reg[x] = (vx * 2) % U8] EXCEPT !.v_reg[15] = msb]
       [] digit1 = 9 /\ digit4 = 0 -> skip_if(m, vx # vy, overflow_checks)
       [] digit1 = 10 -> [m EXCEPT !.i_reg = nnn]
       [] digit1 = 11 -> [m EXCEPT !.pc = m.v_reg[0] + nnn]
       [] digit1 = 12 -> [m EXCEPT !.v_reg[x] = BitAnd(rand, nn)]
       [] digit1 = 13 ->
            draw_sprite(m, [hit |-> {}, flipped |-> FALSE],
                        vx, vy, digit4, 0, overflow_checks)
       [] digit1 = 14 /\ digit3 = 9 /\ digit4 = 14 -> skp_vx(m, x, overflow_checks)
       [] digit1 = 14 /\ digit3 = 10 /\ digit4 = 1 -> sknp_vx(m, x, overflow_checks)
       [] digit1 = 15 /\ digit3 = 0 /\ digit4 = 7 -> [m EXCEPT !.v_reg[x] = m.dt]
       [] digit1 = 15 /\ digit3 = 0 /\ digit4 = 10 ->
            LET key_no == scan_keys(m, NUM_KEYS, 0)
            IN IF key_no = NUM_KEYS
                 THEN pc_sub(m, 2, overflow_checks)
                 ELSE [m EXCEPT !.v_reg[x] = key_no]
       [] digit1 = 15 /\ digit3 = 1 /\ digit4 = 5 -> [m EXCEPT !.dt = vx]
       [] digit1 = 15 /\ digit3 = 1 /\ digit4 = 8 -> [m EXCEPT !.st = vx]
       [] digit1 = 15 /\ digit3 = 1 /\ digit4 = 14 ->
            [m EXCEPT !.i_reg = (m.i_reg + vx) % U16]
       [] digit1 = 15 /\ digit3 = 2 /\ digit4 = 9 ->
            [m EXCEPT !.i_reg = FONTSET_ADDR + FONT_SIZE * vx]
       [] digit1 = 15 /\ digit3 = 3 /\ digit4 = 3 -> store_bcd(m, x)
       [] digit1 = 15 /\ digit3 = 5 /\ digit4 = 5 -> store_regs(m, x, 0)
       [] digit1 = 15 /\ digit3 = 6 /\ digit4 = 5 -> load_regs(m, x, 0)
       [] OTHER -> unimplemented(m, op)

\* ----------------------------------------------------------------------
\* Emu::tick
\* ----------------------------------------------------------------------
tick(m, rand, overflow_checks) ==
  LET f == fetch(m, overflow_checks)
  IN IF f.m.panic # "none"
       THEN f.m
       ELSE execute(f.m, f.op, rand, overflow_checks)

\* ----------------------------------------------------------------------
\* Bounds of the exploration and the inputs of the driver
\* ----------------------------------------------------------------------
\* instruction steps since construction or reset
MaxCycles == 18
\* program loads since construction or reset
MaxLoads == 2
\* the driver loads its images early: after at most this many instruction steps
MaxLoadCycle == 1

\* keys the driver reports (main.rs k_to_btn yields 0..15)
KeySet == {0, 12}

\* bytes the random generator of CXNN may return
RandBytes == {\h00, \h35, \hCA, \hFF}

\* a program image given as 16-bit instruction words, big-endian
RECURSIVE Image(_)
Image(words) ==
  IF words = <<>> THEN <<>>
  ELSE <<Head(words) \div 256, Head(words) % 256>> \o Image(Tail(words))

Zeros(n) == [i \in 1..n |-> 0]

\* the scenario of the specification: load-immediate, add-immediate
ProgAdd ==
  Image(<< \h600A, \h7005, \h61F0, \h7120, \h6FF0, \h7F20, \h70FB, \hC2FF,
           \h7201, \h1212 >>)

\* wait-for-key and the key skips
ProgKey ==
  Image(<< \hF30A, \hE39E, \hE3A1, \h6310, \hE39E, \hFF0A, \hE3A1, \h6310,
           \hE3A1, \h1212 >>)

\* nested subroutines with distinct return addresses, then a return at depth 0
ProgCall ==
  Image(<< \h2206, \h00EE, \h0000, \h220A, \h00EE, \h00EE >>)

\* a chain of 16 calls, then a call at full depth
ProgDeep ==
  Image(<< \h2202, \h2204, \h2206, \h2208, \h220A, \h220C, \h220E, \h2210,
           \h2212, \h2214, \h2216, \h2218, \h221A, \h221C, \h221E, \h2220,
           \h2222 >>)

\* sprites at the right and bottom edge, drawn twice, overlapping, N = 0, X = F
ProgDraw ==
  Image(<< \hC1FF, \h621E, \hA000, \hD125, \hD125, \hD12F, \hD12F, \hD125,
           \h7101, \hD123, \hD120, \hD120, \hDF25, \hDF25, \h00E0, \h121E >>)

\* the two timers
ProgTimer ==
  Image(<< \h6001, \hF015, \h6102, \hF118, \hF207, \h120A >>)

\* the largest image that fits, and one byte more
ProgMax == <<\h1F, \hFE>> \o Zeros(RAM_SIZE - START_ADDR - 4) \o <<\h30, \h00>>

ProgBig == Zeros(RAM_SIZE - START_ADDR + 1)

\* a random byte selects one of four words that match no arm of execute but
\* the default one: 00E1 at 0x210, 9121 at 0x212, E19F at 0x214, F166 at 0x216
ProgBadTable ==
  Image(<< \hC0FF, \h4000, \h1210, \h4035, \h1212, \h40CA, \h1214, \h1216,
           \h00E1, \h9121, \hE19F, \hF166 >>)

\* 8XYF as the first word
ProgBadFirst == Image(<< \h812F >>)

\* 5XY1 and the no-op are executed, then a word of the default arm
ProgBad == Image(<< \h5121, \h0000, \h0000, \h8128 >>)

\* accesses at and past the end of memory: the last step of each is past it
ProgOobFetch == Image(<< \h1FFF >>)

\* a random byte selects one of four accesses: at 0x220 the BCD store, at
\* 0x228 the register store, at 0x230 the register load, at 0x238 the draw
ProgOob ==
  Image(<< \hC0FF, \h4000, \h1220, \h4035, \h1228, \h40CA, \h1230, \h1238,
           \h0000, \h0000, \h0000, \h0000, \h0000, \h0000, \h0000, \h0000,
           \hAFFE, \hFC33, \h0000, \h0000,
           \h6011, \hAFFF, \hF255, \h0000,
           \h60FF, \hAFFF, \hF265, \h0000,
           \h60FF, \hAFFF, \hF155, \hD002 >>)

\* register compare and the two subtractions on random operands, also with
\* the flag register as an operand
ProgAlu ==
  Image(<< \hC0FF, \hC1FF, \h5010, \h0000, \h8015, \h8107, \h8F05, \h80F7,
           \h8FF5, \h8017, \h5FF0, \h0000, \h1218 >>)

\* store and load of registers 0..2 with register 3 random, X = 0, and the
\* BCD store for the indices 3 and 12
ProgMem ==
  Image(<< \hC3FF, \h6011, \h6122, \h6233, \hA300, \hF355, \h6000, \h6100,
           \h6200, \hF365, \hF055, \hF065, \hF333, \hFC33, \h1200 >>)

\* the highest pc a jump with offset gives
ProgJumpMax == Image(<< \h60FF, \hBFFF >>)

\* a key wait stored at address 0 and jumped to
ProgKeyLow == Image(<< \hA000, \h60F0, \h610A, \hF255, \h1000 >>)

\* the images the driver may load, per specification
AddPrograms == { ProgAdd }
KeyPrograms == { ProgKey }
CallPrograms == { ProgCall, ProgDeep }
DrawPrograms == { ProgDraw }
TimerPrograms == { ProgTimer }
LoadPrograms == { ProgAdd, ProgMax, ProgBig }
Programs == { ProgCall, ProgDraw, ProgTimer }
AluPrograms == { ProgAlu }
MemPrograms == { ProgMem }
JumpPrograms == { ProgJumpMax, ProgKeyLow, ProgMax }
BadPrograms == { ProgBadTable, ProgBadFirst, ProgBad }
OobPrograms == { ProgOobFetch, ProgOob }

\* ----------------------------------------------------------------------
\* Decoding of the instruction the next step fetches from machine m
\* ----------------------------------------------------------------------
CanFetch(m) == m.pc + 1 < RAM_SIZE
Word(m) == m.ram[m.pc] * 256 + m.ram[m.pc + 1]
Digit1(w) == w \div 4096
Digit2(w) == (w \div 256) % 16
Digit3(w) == (w \div 16) % 16
Digit4(w) == w % 16
IsCall(w) == Digit1(w) = 2
IsRet(w) == w = \h00EE

\* the generator is consulted by CXNN alone
RandDraws(m) ==
  IF CanFetch(m) /\ Digit1(Word(m)) = 12 THEN RandBytes ELSE {0}

\* ----------------------------------------------------------------------
\* Bookkeeping of open subroutine calls: push appends, pop removes the last
\* ----------------------------------------------------------------------
track_frames(fr, m, m2) ==
  IF m2.panic # "none" \/ ~CanFetch(m) THEN fr
  ELSE IF IsCall(Word(m))
         THEN Append(fr, [site |-> m.pc, depth |-> m.sp])
  ELSE IF IsRet(Word(m)) /\ Len(fr) > 0
         THEN SubSeq(fr, 1, Len(fr) - 1)
  ELSE fr

\* ----------------------------------------------------------------------
\* Actions: one per public method of Emu
\* ----------------------------------------------------------------------
Commit(m2) ==
  /\ pc' = m2.pc
  /\ ram' = m2.ram
  /\ screen' = m2.screen
  /\ v_reg' = m2.v_reg
  /\ i_reg' = m2.i_reg
  /\ sp' = m2.sp
  /\ stack' = m2.stack
  /\ keys' = m2.keys
  /\ dt' = m2.dt
  /\ st' = m2.st
  /\ panic' = m2.panic

Init ==
  /\ pc = new.pc
  /\ ram = new.ram
  /\ screen = new.screen
  /\ v_reg = new.v_reg
  /\ i_reg = new.i_reg
  /\ sp = new.sp
  /\ stack = new.stack
  /\ keys = new.keys
  /\ dt = new.dt
  /\ st = new.st
  /\ panic = new.panic
  /\ last = [op |-> "new", addr |-> 0, word |-> 0, arg |-> <<>>]
  /\ before = [v_reg |-> new.v_reg, i_reg |-> new.i_reg, screen |-> new.screen]
  /\ frames = <<>>
  /\ cycles = 0
  /\ loads = 0

Load(images) ==
  /\ panic = "none"
  /\ loads < MaxLoads
  /\ cycles <= MaxLoadCycle
  /\ \E data \in images :
       /\ Commit(load(Self, data))
       /\ last' = [op |-> "load", addr |-> 0, word |-> 0, arg |-> data]
  /\ loads' = loads + 1
  /\ UNCHANGED <<before, frames, cycles>>

Keypress ==
  /\ panic = "none"
  /\ \E key \in KeySet, pressed \in BOOLEAN :
       /\ Commit(keypress(Self, key, pressed))
       /\ last' = [op |-> "keypress", addr |-> 0, word |-> 0, arg |-> <<>>]
  /\ UNCHANGED <<before, frames, cycles, loads>>

Tick ==
  /\ panic = "none"
  /\ cycles < MaxCycles
  /\ \E rand \in RandDraws(Self), overflow_checks \in BOOLEAN :
       LET m2 == tick(Self, rand, overflow_checks)
       IN /\ Commit(m2)
          /\ frames' = track_frames(frames, Self, m2)
  /\ last' = [op |-> "tick", addr |-> pc,
               word |-> IF CanFetch(Self) THEN Word(Self) ELSE 0, arg |-> <<>>]
  /\ before' = [v_reg |-> v_reg, i_reg |-> i_reg, screen |-> screen]
  /\ cycles' = cycles + 1
  /\ UNCHANGED loads

TickTimers ==
  /\ panic = "none"
  /\ Commit(tick_timers(Self))
  /\ last' = [op |-> "tick_timers", addr |-> 0, word |-> 0, arg |-> <<>>]
  /\ UNCHANGED <<before, frames, cycles, loads>>

Reset ==
  /\ panic = "none"
  /\ Commit(reset(Self))
  /\ last' = [op |-> "reset", addr |-> 0, word |-> 0, arg |-> <<>>]
  /\ before' = [v_reg |-> ZeroRegs, i_reg |-> 0, screen |-> BlankScreen]
  /\ frames' = <<>>
  /\ cycles' = 0
  /\ loads' = 0

Next ==
  \/ Load(Programs)
  \/ Keypress
  \/ Tick
  \/ TickTimers
  \/ Reset

Spec == Init /\ [][Next]_vars

\* the same driver, loading the images of one scenario
NextAdd ==
  \/ Load(AddPrograms)
  \/ Keypress
  \/ Tick
  \/ TickTimers
  \/ Reset

SpecAdd == Init /\ [][NextAdd]_vars

NextKey ==
  \/ Load(KeyPrograms)
  \/ Keypress
  \/ Tick
  \/ TickTimers
  \/ Reset

SpecKey == Init /\ [][NextKey]_vars

NextCall ==
  \/ Load(CallPrograms)
  \/ Keypress
  \/ Tick
  \/ TickTimers
  \/ Reset

SpecCall == Init /\ [][NextCall]_vars

NextDraw ==
  \/ Load(DrawPrograms)
  \/ Keypress
  \/ Tick
  \/ TickTimers
  \/ Reset

SpecDraw == Init /\ [][NextDraw]_vars

NextTimer ==
  \/ Load(TimerPrograms)
  \/ Keypress
  \/ Tick
  \/ TickTimers
  \/ Reset

SpecTimer == Init /\ [][NextTimer]_vars

NextLoad ==
  \/ Load(LoadPrograms)
  \/ Keypress
  \/ Tick
  \/ TickTimers
  \/ Reset

SpecLoad == Init /\ [][NextLoad]_vars

NextBad ==
  \/ Load(BadPrograms)
  \/ Keypress
  \/ Tick
  \/ TickTimers
  \/ Reset

SpecBad == Init /\ [][NextBad]_vars

NextOob ==
  \/ Load(OobPrograms)
  \/ Keypress
  \/ Tick
  \/ TickTimers
  \/ Reset

SpecOob == Init /\ [][NextOob]_vars

NextAlu ==
  \/ Load(AluPrograms)
  \/ Keypress
  \/ Tick
  \/ TickTimers
  \/ Reset

SpecAlu == Init /\ [][NextAlu]_vars

NextMem ==
  \/ Load(MemPrograms)
  \/ Keypress
  \/ Tick
  \/ TickTimers
  \/ Reset

SpecMem == Init /\ [][NextMem]_vars

NextJump ==
  \/ Load(JumpPrograms)
  \/ Keypress
  \/ Tick
  \/ TickTimers
  \/ Reset

SpecJump == Init /\ [][NextJump]_vars

\* ======================================================================
\* Properties
\* ======================================================================
\* the step taken is an instruction step that fetches without panicking
Fetches == last'.op = "tick" /\ CanFetch(Self)

NoKeyPressed == \A k \in 0..(NUM_KEYS - 1) : ~keys[k]
PressedKeys == {k \in 0..(NUM_KEYS - 1) : keys[k]}
HighestPressed == CHOOSE k \in PressedKeys : \A j \in PressedKeys : j <= k

IsWaitKey(w) == Digit1(w) = 15 /\ Digit3(w) = 0 /\ Digit4(w) = 10
IsDraw(w) == Digit1(w) = 13

\* C1: after reset the whole machine equals a freshly constructed one
\* (pc = 0x200, font table at 0..79, every other field cleared).
C1_ResetEqualsNew ==
  last.op = "reset" => Self = new

\* C2: while no key is pressed an instruction step that executes FX0A leaves
\* the whole machine as it was, and under instruction steps and timer steps
\* the machine stays at that FX0A, with no key pressed.
C2_WaitKeyHolds ==
  [][ (CanFetch(Self) /\ IsWaitKey(Word(Self)) /\ NoKeyPressed
         /\ last'.op \in {"tick", "tick_timers"})
      => /\ panic' = "none"
         /\ pc' = pc
         /\ CanFetch(Self') /\ IsWaitKey(Word(Self')) /\ NoKeyPressed'
         /\ (last'.op = "tick" => emu_vars' = emu_vars) ]_vars

C2_Witness ==
  /\ last.op = "tick" /\ IsWaitKey(last.word)
  /\ panic = "none" /\ NoKeyPressed
  /\ pc = last.addr /\ cycles >= 3

\* C3: with some key pressed, FX0A fetched at P ends with pc = P + 2 and
\* register X = the highest pressed key index; nothing else changes.
C3_WaitKeyTakesHighest ==
  [][ (Fetches /\ IsWaitKey(Word(Self)) /\ ~NoKeyPressed)
      => /\ panic' = "none"
         /\ pc' = pc + 2
         /\ v_reg' = [v_reg EXCEPT ![Digit2(Word(Self))] = HighestPressed]
         /\ UNCHANGED <<ram, screen, i_reg, sp, stack, keys, dt, st>> ]_vars

C3_Witness ==
  /\ last.op = "tick" /\ IsWaitKey(last.word)
  /\ panic = "none"
  /\ PressedKeys = {0, 12}
  /\ pc = last.addr + 2
  /\ v_reg[Digit2(last.word)] = 12

\* C4: a call 2NNN fetched at P below full depth sets pc = NNN and pushes
\* P + 2; the return balanced with it sets pc = P + 2 and restores the depth
\* the stack had before that call (open calls are returned from last-in
\* first-out).
C4_CallReturn ==
  [][ /\ (Fetches /\ IsCall(Word(Self)) /\ sp < STACK_SIZE)
         => /\ panic' = "none"
            /\ pc' = Word(Self) % 4096
            /\ sp' = sp + 1
            /\ stack' = [stack EXCEPT ![sp] = pc + 2]
      /\ (Fetches /\ IsRet(Word(Self)) /\ sp > 0)
         => /\ panic' = "none"
            /\ Len(frames) = sp
            /\ pc' = frames[Len(frames)].site + 2
            /\ sp' = frames[Len(frames)].depth
            /\ stack' = stack ]_vars

C4_Witness ==
  /\ last.op = "tick" /\ IsRet(last.word)
  /\ panic = "none"
  /\ last.addr = \h20A /\ pc = \h208
  /\ sp = 1 /\ stack[0] = \h202

\* C5: the stack depth is within 0..16 in every state without panic; a call
\* at depth 16 and a return at depth 0 panic, and the call writes no slot.
C5_StackBounds ==
  [][ /\ panic' = "none" => sp' \in 0..STACK_SIZE
      /\ (Fetches /\ IsCall(Word(Self)) /\ sp = STACK_SIZE)
         => panic' # "none" /\ stack' = stack
      /\ (Fetches /\ IsRet(Word(Self)) /\ sp = 0)
         => panic' # "none" /\ stack' = stack ]_vars

C5_Witness ==
  /\ last.op = "tick" /\ IsCall(last.word)
  /\ panic = "index_out_of_bounds"
  /\ sp = STACK_SIZE
  /\ \A i \in 0..(STACK_SIZE - 1) : stack[i] = \h202 + 2 * i

\* the display pixels a draw of N rows at (vx, vy) targets: one per set bit
\* of the sprite bytes at i_reg .. i_reg + N - 1
SpriteBits(w) ==
  {rc \in (0..(Digit4(w) - 1)) \X (0..7) : Bit(ram[i_reg + rc[1]], 7 - rc[2]) = 1}

Targets(w) ==
  {((v_reg[Digit2(w)] + rc[2]) % 64) + 64 * ((v_reg[Digit3(w)] + rc[1]) % 32) :
     rc \in SpriteBits(w)}

\* C6: drawing twice with the same VX and VY values, the same index and the
\* same sprite bytes leaves the display as it was before the first draw.
\* (`before` is the machine at entry of the first draw; no draw writes memory.)
C6_DrawTwiceRestores ==
  [][ (/\ last.op = "tick" /\ IsDraw(last.word)
       /\ Fetches /\ IsDraw(Word(Self))
       /\ Digit4(Word(Self)) = Digit4(last.word)
       /\ v_reg[Digit2(Word(Self))] = before.v_reg[Digit2(last.word)]
       /\ v_reg[Digit3(Word(Self))] = before.v_reg[Digit3(last.word)]
       /\ i_reg = before.i_reg)
      => panic' = "none" /\ screen' = before.screen ]_vars

C6_Witness ==
  /\ last.op = "tick" /\ last.word = \hD12F /\ last.addr = \h20C
  /\ panic = "none"
  /\ v_reg[1] = 255 /\ v_reg[2] = 30
  /\ before.screen # BlankScreen /\ before.screen[63 + 64 * 12]
  /\ screen = BlankScreen

\* C7: a draw XORs every set sprite bit (row r, column c) into the pixel at
\* column (VX + c) mod 64, row (VY + r) mod 32, leaves all other pixels, and
\* sets VF to 1 iff a targeted pixel was set before the draw, else to 0.
C7_DrawXorWrap ==
  [][ (/\ Fetches /\ IsDraw(Word(Self))
       /\ i_reg + Digit4(Word(Self)) <= RAM_SIZE)
      => LET hit == Targets(Word(Self))
         IN /\ panic' = "none"
            /\ screen' = [p \in 0..2047 |-> screen[p] # (p \in hit)]
            /\ v_reg' = [v_reg EXCEPT ![15] =
                           IF \E p \in hit : screen[p] THEN 1 ELSE 0]
            /\ pc' = pc + 2
            /\ UNCHANGED <<ram, i_reg, sp, stack, keys, dt, st>> ]_vars

C7_Witness ==
  /\ last.op = "tick" /\ last.word = \hD123
  /\ panic = "none"
  /\ v_reg[1] = 0 /\ v_reg[2] = 30 /\ v_reg[15] = 1
  /\ screen[63 + 64 * 30] /\ screen[63 + 64 * 0]
  /\ ~screen[0 + 64 * 30] /\ screen[3 + 64 * 30]

\* C8: a timer step decrements each timer by exactly 1 when it is positive
\* and leaves it at 0 otherwise, each on its own, and changes nothing else.
C8_TimerStep ==
  [][ last'.op = "tick_timers"
      => /\ panic' = "none"
         /\ dt' = (IF dt > 0 THEN dt - 1 ELSE 0)
         /\ st' = (IF st > 0 THEN st - 1 ELSE 0)
         /\ dt' \in 0..255 /\ st' \in 0..255
         /\ UNCHANGED <<pc, ram, screen, v_reg, i_reg, sp, stack, keys>> ]_vars

C8_Witness ==
  /\ last.op = "tick_timers"
  /\ panic = "none"
  /\ v_reg[0] = 1 /\ v_reg[1] = 2 /\ pc = \h208
  /\ dt = 0 /\ st = 1

\* C9: load of at most 3584 bytes copies them to 0x200 .. 0x200 + len - 1 and
\* changes nothing else; load of more bytes panics and writes no byte.
C9_Load ==
  [][ last'.op = "load"
      => LET data == last'.arg
         IN /\ UNCHANGED <<pc, screen, v_reg, i_reg, sp, stack, keys, dt, st>>
            /\ IF Len(data) <= 3584
                 THEN /\ panic' = "none"
                      /\ \A a \in 0..4095 :
                           ram'[a] = IF a >= 512 /\ a - 512 < Len(data)
                                       THEN data[a - 512 + 1]
                                       ELSE ram[a]
                 ELSE panic' # "none" /\ ram' = ram ]_vars

C9_Witness ==
  /\ last.op = "load" /\ Len(last.arg) = 3584
  /\ panic = "none"
  /\ loads = 2 /\ cycles = 1
  /\ ram[512] = \h1F /\ ram[4094] = \h30 /\ ram[4095] = 0
  /\ ram[0] = \hF0 /\ ram[79] = \h80

\* C10: 6XNN then 7XNN2, two instruction steps from the address of 6XNN,
\* yield VX = (NN + NN2) mod 256 and pc advanced by 4; 7XNN changes no
\* register but VX (so VF only when X = F, to the wrapped sum).
C10_LoadThenAdd ==
  [][ /\ (Fetches /\ Digit1(Word(Self)) = 7)
         => /\ panic' = "none"
            /\ v_reg' = [v_reg EXCEPT ![Digit2(Word(Self))] =
                           (v_reg[Digit2(Word(Self))] + (Word(Self) % 256)) % 256]
            /\ pc' = pc + 2
            /\ UNCHANGED <<ram, screen, i_reg, sp, stack, keys, dt, st>>
      /\ (/\ last.op = "tick" /\ Digit1(last.word) = 6 /\ pc = last.addr + 2
          /\ Fetches /\ Digit1(Word(Self)) = 7
          /\ Digit2(Word(Self)) = Digit2(last.word))
         => /\ v_reg'[Digit2(last.word)] =
                 ((last.word % 256) + (Word(Self) % 256)) % 256
            /\ pc' = last.addr + 4 ]_vars

C10_Witness ==
  /\ last.op = "tick" /\ last.word = \h7005 /\ last.addr = \h202
  /\ panic = "none"
  /\ cycles = 2
  /\ v_reg[0] = \h0F /\ v_reg[15] = 0
  /\ pc = \h204

\* the words the dispatch table gives no operation: 0NNN but 0000, 00E0, 00EE;
\* 8XY8..8XYD, 8XYF; 9XY1..9XYF; EXNN but EX9E, EXA1; FXNN but 07, 0A, 15,
\* 18, 1E, 29, 33, 55, 65
IsUndefined(w) ==
  \/ Digit1(w) = 0 /\ w \notin {\h0000, \h00E0, \h00EE}
  \/ Digit1(w) = 8 /\ Digit4(w) \in (8..13) \cup {15}
  \/ Digit1(w) = 9 /\ Digit4(w) # 0
  \/ Digit1(w) = 14 /\ (w % 256) \notin {\h9E, \hA1}
  \/ Digit1(w) = 15
       /\ (w % 256) \notin {\h07, \h0A, \h15, \h18, \h1E, \h29, \h33, \h55, \h65}

\* C11: an instruction step that fetches a word of no defined operation ends
\* fatal (unimplemented), with nothing written but the advanced pc; it is
\* never a step after which the machine goes on; a word of a defined
\* operation is never reported as unimplemented.
C11_UnknownOpcodeFatal ==
  [][ /\ (Fetches /\ IsUndefined(Word(Self)))
         => /\ panic' = "unimplemented"
            /\ UNCHANGED <<ram, screen, v_reg, i_reg, sp, stack, keys, dt, st>>
      /\ (Fetches /\ ~IsUndefined(Word(Self))) => panic' # "unimplemented" ]_vars

C11_Witness ==
  /\ last.op = "tick" /\ last.word = \h8128 /\ last.addr = \h206
  /\ panic = "unimplemented"
  /\ cycles = 3

IsStoreBcd(w) == Digit1(w) = 15 /\ w % 256 = \h33
IsStoreRegs(w) == Digit1(w) = 15 /\ w % 256 = \h55
IsLoadRegs(w) == Digit1(w) = 15 /\ w % 256 = \h65

\* C12: an instruction step that would touch a memory address past 4095 is
\* fatal: a fetch with pc >= 4095 (nothing changes), a draw with a sprite row
\* past the end (memory and registers keep their values), store-BCD,
\* store-registers and load-registers reaching 4096 (only the bytes or
\* registers of the addresses below 4096 are written, no other one).
C12_OutOfBoundsFatal ==
  [][ /\ (last'.op = "tick" /\ pc >= RAM_SIZE - 1)
         => panic' = "index_out_of_bounds" /\ emu_vars' = emu_vars
      /\ (Fetches /\ IsDraw(Word(Self)) /\ Digit4(Word(Self)) >= 1
            /\ i_reg + Digit4(Word(Self)) - 1 >= RAM_SIZE)
         => panic' # "none" /\ ram' = ram /\ v_reg' = v_reg
      /\ (Fetches /\ IsStoreBcd(Word(Self)) /\ i_reg + 2 >= RAM_SIZE)
         => /\ panic' = "index_out_of_bounds"
            /\ \A a \in 0..(RAM_SIZE - 1) :
                 ram'[a] = IF a = i_reg THEN 0
                           ELSE IF a = i_reg + 1 THEN Digit2(Word(Self)) \div 10
                           ELSE ram[a]
            /\ v_reg' = v_reg
      /\ (Fetches /\ IsStoreRegs(Word(Self))
            /\ i_reg + Digit2(Word(Self)) - 1 >= RAM_SIZE)
         => /\ panic' = "index_out_of_bounds"
            /\ \A a \in 0..(RAM_SIZE - 1) :
                 ram'[a] = IF a >= i_reg THEN v_reg[a - i_reg] ELSE ram[a]
            /\ v_reg' = v_reg
      /\ (Fetches /\ IsLoadRegs(Word(Self))
            /\ i_reg + Digit2(Word(Self)) - 1 >= RAM_SIZE)
         => /\ panic' = "index_out_of_bounds"
            /\ ram' = ram
            /\ \A k \in 0..(NUM_REGS - 1) :
                 v_reg'[k] = IF i_reg + k < RAM_SIZE THEN ram[i_reg + k]
                             ELSE v_reg[k] ]_vars

C12_Witness ==
  /\ last.op = "tick" /\ last.word = \hFC33
  /\ panic = "index_out_of_bounds"
  /\ i_reg = \hFFE
  /\ ram[\hFFD] = 0 /\ ram[\hFFE] = 0 /\ ram[\hFFF] = 1 /\ ram[0] = \hF0

IsClear(w) == w = \h00E0

\* C13: the display changes only in an instruction step that executes a draw
\* or the clear-screen, or in a reset; after clear-screen all 2048 pixels are
\* false whatever they were; timer steps, key updates, loads and every other
\* instruction leave every pixel.
C13_DisplayFrame ==
  [][ /\ screen' # screen
         => \/ last'.op = "reset"
            \/ Fetches /\ (IsDraw(Word(Self)) \/ IsClear(Word(Self)))
      /\ (Fetches /\ IsClear(Word(Self)))
         => /\ panic' = "none"
            /\ \A p \in 0..(SCREEN_WIDTH * SCREEN_HEIGHT - 1) : ~screen'[p]
            /\ DOMAIN screen' = 0..2047 ]_vars

C13_Witness ==
  /\ last.op = "tick" /\ IsClear(last.word)
  /\ panic = "none"
  /\ \E p \in 0..2047 : before.screen[p]
  /\ \A p \in 0..2047 : ~screen[p]

\* C14: a timer step gives the driver the one-shot sound cue exactly when the
\* sound timer is 1 before the step.
C14_SoundCue ==
  [][ last'.op = "tick_timers" => (sound_cue(Self) <=> st = 1) ]_vars

\* C15: skip-if-registers-equal 5XY0 fetched at P ends with pc = P + 4 when
\* register X equals register Y and with pc = P + 2 otherwise.
C15_SkipIfRegistersEqual ==
  [][ (Fetches /\ Digit1(Word(Self)) = 5 /\ Digit4(Word(Self)) = 0)
      => pc' = IF v_reg[Digit2(Word(Self))] = v_reg[Digit3(Word(Self))]
                 THEN pc + 4 ELSE pc + 2 ]_vars

C19_FlagOnUnsetToSet ==
  [][ (Fetches /\ IsDraw(Word(Self)) /\ i_reg + Digit4(Word(Self)) <= RAM_SIZE)
      => v_reg'[15] = IF \E p \in 0..2047 : ~screen[p] /\ screen'[p]
                        THEN 1 ELSE 0 ]_vars

\* C19 amended: a draw sets VF to 1 if some pixel went from set to unset in
\* this draw (a pixel the sprite targets was set already), else to 0.
C19_FlagOnSetToUnset ==
  [][ (Fetches /\ IsDraw(Word(Self)) /\ i_reg + Digit4(Word(Self)) <= RAM_SIZE)
      => /\ panic' = "none"
         /\ v_reg'[15] = IF \E p \in 0..2047 : screen[p] /\ ~screen'[p]
                           THEN 1 ELSE 0 ]_vars

C19_Witness ==
  /\ last.op = "tick" /\ IsDraw(last.word) /\ Digit4(last.word) = 3
  /\ panic = "none"
  /\ v_reg[15] = 1
  /\ \E p \in 0..2047 : before.screen[p] /\ ~screen[p]
  /\ \E q \in 0..2047 : ~before.screen[q] /\ screen[q]

\* the highest value of pc: register 0 at 255 plus NNN at 0xFFF
MaxPc == (U8 - 1) + \h0FFF

\* C20: in every state without panic pc <= 0x10FE; the pc a fetch leaves is
\* >= 2 and <= 4096, so no update of pc overflows or underflows its 16 bits
\* (the only arithmetic overflows of a step are the depth of a return at
\* depth 0 and a sprite address past 65535); an instruction step from
\* pc > 4094 is fatal.
C20_PcRange ==
  [][ /\ panic' = "none" => pc' \in 0..MaxPc
      /\ Fetches => pc + 2 \in 2..RAM_SIZE
      /\ (Fetches /\ IsWaitKey(Word(Self))) => panic' = "none" /\ pc' \in {pc, pc + 2}
      /\ (last'.op = "tick" /\ panic' = "arith_overflow")
         => /\ Fetches
            /\ \/ IsRet(Word(Self)) /\ sp = 0
               \/ IsDraw(Word(Self)) /\ i_reg + Digit4(Word(Self)) > U16
      /\ (last'.op = "tick" /\ pc > RAM_SIZE - 2) => panic' # "none" ]_vars

C20_Witness ==
  /\ last.op = "tick" /\ last.word = \hBFFF
  /\ panic = "none"
  /\ v_reg[0] = 255
  /\ pc = MaxPc

IsSkipKey(w) == Digit1(w) = 14 /\ w % 256 = \h9E
IsSkipNotKey(w) == Digit1(w) = 14 /\ w % 256 = \hA1

\* C21: EX9E and EXA1 take the whole value of register X as the key number:
\* with a value in 0..15 the step ends at P + 4 exactly when that key is
\* pressed (EX9E) or not pressed (EXA1), else at P + 2, and changes nothing
\* else; with a value above 15 the step is fatal and skips nothing.
C21_KeySkip ==
  [][ (Fetches /\ (IsSkipKey(Word(Self)) \/ IsSkipNotKey(Word(Self))))
      => LET key_no == v_reg[Digit2(Word(Self))]
         IN /\ UNCHANGED <<ram, screen, v_reg, i_reg, sp, stack, keys, dt, st>>
            /\ IF key_no \in 0..(NUM_KEYS - 1)
                 THEN /\ panic' = "none"
                      /\ pc' = IF keys[key_no] = IsSkipKey(Word(Self))
                                 THEN pc + 4 ELSE pc + 2
                 ELSE panic' = "index_out_of_bounds" /\ pc' = pc + 2 ]_vars

C21_Witness ==
  /\ last.op = "tick" /\ IsSkipKey(last.word) /\ last.addr = \h208
  /\ panic = "index_out_of_bounds"
  /\ v_reg[3] = 16
  /\ keys[0]

====
